---- MODULE Spec2Model ----
(***************************************************************************)
(* Food Repository Viewer (src/Food_repositry_viewer_cloud.py).            *)
(*                                                                         *)
(* The Streamlit script is re-run from the top on every user interaction.  *)
(* The model keeps the session state (selected_fids, detection_mode), the  *)
(* widget values that survive a re-run (the slider, the data editor), what *)
(* the page currently shows (warnings, charts, an uncaught exception), and *)
(* the locals of the confirm pipeline while its per-sample loop runs.      *)
(*                                                                         *)
(* Units: retention times and the merge width are counted in ticks of      *)
(* 0.05 min, the slider's step, so 20 min = 400 ticks.  Arithmetic is      *)
(* exact; a relative intensity is a fraction num/den, or NaN / inf as      *)
(* numpy produces them on a zero denominator.  Rounding of binary floats   *)
(* is not modelled: np.arange and np.digitize behave as below whenever     *)
(* min, max and the width are exactly representable (0.0, 20.0, 0.5, 1.0). *)
(*                                                                         *)
(* A run is taken to reach its end before the next interaction is served   *)
(* (one synchronous pass per user action).                                 *)
(***************************************************************************)
EXTENDS Integers, Sequences, FiniteSets

VARIABLES
    csv_found,        \* whether sample_list.csv could be read
    selected_fids,    \* st.session_state["selected_fids"]
    detection_mode,   \* st.session_state["detection_mode"]
    rt_merge_width,   \* the slider's value, in ticks
    edited,           \* the data editor's checkbox column, by row
    pc,               \* "idle" (script finished) or "loop" (inside the for loop)
    todo,             \* fids the for loop has not visited yet
    response,         \* the loop's local `response`
    loc,              \* the loop body's locals of the last processed sample
    fig,              \* the local go.Figure: its traces
    pie_charts,       \* the local list of pie charts
    warnings,         \* st.warning messages on the page
    line_chart,       \* the overlay chart on the page
    pies_shown,       \* the pie charts on the page
    exception,        \* the uncaught exception the page shows, or "none"
    fetch_log,        \* the requests of the current run and how each ended
    last_action       \* the user action that started the current run

vars == <<csv_found, selected_fids, detection_mode, rt_merge_width, edited, pc,
          todo, response, loc, fig, pie_charts, warnings, line_chart,
          pies_shown, exception, fetch_log, last_action>>

----------------------------------------------------------------------------
(* Bounds of the model *)

NumSamples == 2
MaxPoints == 2
MaxIntensity == 1
MaxFineRT == 1
NumWidths == 2

(* Program constants, in ticks of 0.05 min *)

TicksPerMinute == 20
SliderMin == 1
SliderMax == 20
SliderDefault == 4

----------------------------------------------------------------------------
(* Generic helpers *)

\* the sum of s[lo..hi], by halves
RECURSIVE RangeSum(_, _, _)
RangeSum(s, lo, hi) ==
    IF lo > hi THEN 0
    ELSE IF lo = hi THEN s[lo]
    ELSE LET mid == (lo + hi) \div 2
         IN  RangeSum(s, lo, mid) + RangeSum(s, mid + 1, hi)

SeqSum(s) == RangeSum(s, 1, Len(s))

SetMin(S) == CHOOSE x \in S : \A y \in S : x <= y
SetMax(S) == CHOOSE x \in S : \A y \in S : x >= y

Range(s) == {s[i] : i \in DOMAIN s}

\* the same sequence, as a tuple whose elements are evaluated once
Array(s) == s \o <<>>

SeqsUpTo(S, n) == UNION {[1..k -> S] : k \in 0..n}

CeilDiv(a, b) == (a + b - 1) \div b

----------------------------------------------------------------------------
(* numpy floats: val / total * 100 on numpy scalars never raises; a zero   *)
(* denominator gives nan (0/0) or inf (x/0).                               *)

NaN == [kind |-> "nan", num |-> 0, den |-> 1]
Inf == [kind |-> "inf", num |-> 0, den |-> 1]
Fin(n, d) == [kind |-> "fin", num |-> n, den |-> d]

Percent(val, total) ==
    IF total = 0
    THEN (IF val = 0 THEN NaN ELSE Inf)
    ELSE Fin(val * 100, total)

----------------------------------------------------------------------------
(* The peak list of one response: the JSON array's records, and which of   *)
(* the two fields they carry.  An empty array has no fields at all.        *)

RT_Values == (0..MaxFineRT) \cup {k * 20 * TicksPerMinute : k \in 1..4}
Intensities == 0..MaxIntensity
PeakPoint == [rt : RT_Values, intensity : Intensities]

WellFormed(points) == [has_rt |-> TRUE, has_intensity |-> TRUE, points |-> points]
EmptyList == [has_rt |-> FALSE, has_intensity |-> FALSE, points |-> <<>>]

MalformedBodies ==
    { EmptyList,
      [has_rt |-> FALSE, has_intensity |-> TRUE,
       points |-> << [rt |-> 0, intensity |-> 0] >>],
      [has_rt |-> TRUE, has_intensity |-> FALSE,
       points |-> << [rt |-> 0, intensity |-> 0] >>] }

EngineBodies ==
    MalformedBodies \cup
    {WellFormed(ps) : ps \in (SeqsUpTo(PeakPoint, MaxPoints) \ {<<>>})}

ShellBodies ==
    MalformedBodies \cup
    { WellFormed(<< [rt |-> 0, intensity |-> MaxIntensity] >>),
      WellFormed(<< [rt |-> 0, intensity |-> 0],
                    [rt |-> 20 * TicksPerMinute, intensity |-> MaxIntensity] >>) }

ErrorStatuses == {204, 404, 500}

Responses(bodies) ==
    {[status |-> 200, body |-> b] : b \in bodies}
        \cup {[status |-> s, body |-> EmptyList] : s \in ErrorStatuses}

NoResponse == [status |-> 0, body |-> EmptyList]

\* data['rt'] / data['intensity'] raise KeyError when the column is absent
KeyError(body) == ~body.has_rt \/ ~body.has_intensity

----------------------------------------------------------------------------
(* (a) merge-width histogram, lines 105-114 *)

np_arange(start, stop, step) ==
    LET n == IF stop > start THEN CeilDiv(stop - start, step) ELSE 0
    IN  Array([i \in 1..n |-> start + (i - 1) * step])

\* right=False, increasing bins: i with bins[i-1] <= x < bins[i]
np_digitize(xs, bins) ==
    Array([k \in DOMAIN xs |->
               Cardinality({j \in DOMAIN bins : bins[j] <= xs[k]})])

bin_edges(retention_time, w) ==
    np_arange(SetMin(Range(retention_time)),
              SetMax(Range(retention_time)) + w, w)

bin_indices(retention_time, edges) == np_digitize(retention_time, edges)

MaskedSum(intensity, indices, i) ==
    SeqSum([k \in DOMAIN intensity |->
                IF indices[k] = i THEN intensity[k] ELSE 0])

binned_intensity(intensity, indices, edges) ==
    Array([i \in 1..(Len(edges) - 1) |-> MaskedSum(intensity, indices, i)])

total_intensity(binned) == SeqSum(binned)

relative_intensity(binned, total) ==
    Array([i \in DOMAIN binned |-> Percent(binned[i], total)])

\* (edges[:-1] + edges[1:]) / 2, kept as the fraction over 2
bin_centers(edges) ==
    Array([i \in 1..(Len(edges) - 1) |-> Fin(edges[i] + edges[i + 1], 2)])

----------------------------------------------------------------------------
(* (b) fixed composition buckets, lines 126-131 *)

bin_labels == <<"0-20 min", "20-40 min", "40-60 min", "60-80 min", "80+ min">>

\* bins = [0, 20, 40, 60, 80, np.inf]; the last edge is infinite
bins == [k \in 1..5 |-> (k - 1) * 20 * TicksPerMinute]

\* variant: pd.cut without right=False, its default: (bins[k], bins[k+1]]
pd_cut_right_closed(x) ==
    LET hit == {k \in 1..5 : bins[k] < x /\ (k = 5 \/ x <= bins[k + 1])}
    IN  IF hit = {} THEN 0 ELSE CHOOSE k \in hit : TRUE

\* right=False: [bins[k], bins[k+1]); 0 stands for NaN (no interval)
pd_cut(x) ==
    LET hit == {k \in 1..5 : bins[k] <= x /\ (k = 5 \/ x < bins[k + 1])}
    IN  IF hit = {} THEN 0 ELSE CHOOSE k \in hit : TRUE

RT_range(retention_time) ==
    Array([k \in DOMAIN retention_time |-> pd_cut(retention_time[k])])

\* data.groupby('RT_range')['intensity'].sum(): a sum per category; with
\* observed=True only for the categories present.  The script leaves
\* `observed` to the installed pandas, whose default changed between versions.
groupby_sum(cats, intensity, observed) ==
    LET keys == IF observed THEN Range(cats) \ {0} ELSE 1..5
    IN  [k \in keys |-> MaskedSum(intensity, cats, k)]

reindex(sums, fill_value) ==
    Array([k \in 1..Len(bin_labels) |->
               IF k \in DOMAIN sums THEN sums[k] ELSE fill_value])

intensity_sum(cats, intensity, observed) ==
    reindex(groupby_sum(cats, intensity, observed), 0)

----------------------------------------------------------------------------
(* The page and the session *)

\* the fid column of sample_list.csv, by row
sample_list_df == [r \in 1..NumSamples |-> r]
Rows == DOMAIN sample_list_df

\* the slider positions explored: the default and the widest ones
Widths ==
    {w \in SliderMin..SliderMax : w > SliderMax - NumWidths \/ w = SliderDefault}

NoLocals ==
    [bin_edges |-> <<>>, bin_indices |-> <<>>, binned_intensity |-> <<>>,
     total_intensity |-> 0, relative_intensity |-> <<>>, bin_centers |-> <<>>,
     intensity_sum |-> <<>>]

\* go.Scatter(x=bin_centers, y=relative_intensity, name=... (ID: fid))
Scatter(fid, l) == [name |-> fid, x |-> l.bin_centers, y |-> l.relative_intensity]

\* go.Pie(labels=bin_labels, values=intensity_sum.values), titled by the fid
Pie(fid, l) == [title |-> fid, labels |-> bin_labels, values |-> l.intensity_sum]

NoChart == [shown |-> FALSE, traces |-> <<>>]

CatalogWarning == [kind |-> "catalog_missing", fid |-> 0, status |-> 0]
EmptySelectionWarning == [kind |-> "empty_selection", fid |-> 0, status |-> 0]
FetchWarning(fid, status) == [kind |-> "fetch_failed", fid |-> fid, status |-> status]

\* the user action that started the run, the rows it submitted, and the
\* session state it found
Action(kind, marked) ==
    [kind |-> kind, marked |-> marked,
     prior_fids |-> selected_fids, prior_mode |-> detection_mode]

Init ==
    /\ csv_found \in BOOLEAN
    /\ selected_fids = {}
    /\ detection_mode = "pos"
    /\ rt_merge_width = SliderDefault
    /\ edited = [r \in Rows |-> FALSE]
    /\ pc = "idle"
    /\ todo = {}
    /\ response = NoResponse
    /\ loc = NoLocals
    /\ fig = <<>>
    /\ pie_charts = <<>>
    /\ warnings = IF csv_found THEN <<>> ELSE <<CatalogWarning>>
    /\ line_chart = NoChart
    /\ pies_shown = <<>>
    /\ exception = "none"
    /\ fetch_log = <<>>
    /\ last_action = [kind |-> "open", marked |-> {},
                      prior_fids |-> {}, prior_mode |-> "pos"]

\* a widget of the page can be used: the page has widgets and no run is going on
Interactive == csv_found /\ pc = "idle"

\* variant: the submitted ids are added to the stored set (update, not assign)
CommitSelection_Merge(column) ==
    selected_fids \cup {sample_list_df[r] : r \in {q \in Rows : column[q]}}

\* lines 59-62: edited_df[edited_df['選択']]['fid'].tolist(), as a set
CommitSelection(column) == {sample_list_df[r] : r \in {q \in Rows : column[q]}}

\* variant: the table is committed on every re-run, without `if submit_button`
TopOfScript_AlwaysCommit(submit_button, radio) ==
    /\ selected_fids' = CommitSelection(edited)
    /\ detection_mode' = radio

\* lines 59-70, run at the top of every re-run: the form's submit and the radio
TopOfScript(submit_button, radio) ==
    /\ selected_fids' = IF submit_button THEN CommitSelection(edited)
                                         ELSE selected_fids
    /\ detection_mode' = radio

\* a re-run starts from an empty page and fresh locals
FreshRun ==
    /\ line_chart' = NoChart
    /\ pies_shown' = <<>>
    /\ exception' = "none"
    /\ response' = NoResponse
    /\ loc' = NoLocals
    /\ fig' = <<>>
    /\ pie_charts' = <<>>
    /\ fetch_log' = <<>>

\* ticking a checkbox inside the form: no re-run, nothing reaches the script
EditCheckbox ==
    /\ Interactive
    /\ \E r \in Rows : edited' = [edited EXCEPT ![r] = ~edited[r]]
    /\ UNCHANGED <<csv_found, selected_fids, detection_mode, rt_merge_width, pc,
                   todo, response, loc, fig, pie_charts, warnings, line_chart,
                   pies_shown, exception, fetch_log, last_action>>

\* the form's submit button
SaveSelection ==
    /\ Interactive
    /\ TopOfScript(TRUE, detection_mode)
    /\ FreshRun
    /\ warnings' = <<>>
    /\ todo' = {}
    /\ last_action' = Action("save", {r \in Rows : edited[r]})
    /\ UNCHANGED <<csv_found, rt_merge_width, edited, pc>>

\* the sidebar radio
SelectMode ==
    /\ Interactive
    /\ \E m \in {"pos", "neg"} :
        /\ m # detection_mode
        /\ TopOfScript(FALSE, m)
    /\ FreshRun
    /\ warnings' = <<>>
    /\ todo' = {}
    /\ last_action' = Action("mode", {})
    /\ UNCHANGED <<csv_found, rt_merge_width, edited, pc>>

\* the sidebar slider
SlideWidth ==
    /\ Interactive
    /\ \E w \in Widths :
        /\ w # rt_merge_width
        /\ rt_merge_width' = w
    /\ TopOfScript(FALSE, detection_mode)
    /\ FreshRun
    /\ warnings' = <<>>
    /\ todo' = {}
    /\ last_action' = Action("width", {})
    /\ UNCHANGED <<csv_found, edited, pc>>

\* variant: `is None` instead of `not`; the stored set is never None
NothingSelected_IsNone(fids) == FALSE

\* line 74: not st.session_state["selected_fids"]
NothingSelected(fids) == fids = {}

\* lines 73-84: the confirm button, up to the head of the for loop
Confirm ==
    /\ Interactive
    /\ TopOfScript(FALSE, detection_mode)
    /\ FreshRun
    /\ IF NothingSelected(selected_fids')
       THEN /\ warnings' = <<EmptySelectionWarning>>
            /\ pc' = "idle"
            /\ todo' = {}
       ELSE /\ warnings' = <<>>
            /\ pc' = "loop"
            /\ todo' = selected_fids'
    /\ last_action' = Action("confirm", {})
    /\ UNCHANGED <<csv_found, rt_merge_width, edited>>

\* data['rt'], data['intensity']: a column of the parsed peak list
Column_rt(body) == Array([k \in DOMAIN body.points |-> body.points[k].rt])
Column_intensity(body) ==
    Array([k \in DOMAIN body.points |-> body.points[k].intensity])

\* lines 99-147: the loop body on a parsed peak list; every local is
\* assigned once, in the order of the script
ProcessPeaks(fid, body) ==
    \E retention_time \in {Column_rt(body)},
       intensity \in {Column_intensity(body)} :
    \E edges \in {bin_edges(retention_time, rt_merge_width)} :
    \E indices \in {bin_indices(retention_time, edges)} :
    \E binned \in {binned_intensity(intensity, indices, edges)} :
    \E total \in {total_intensity(binned)} :
    \E relative \in {relative_intensity(binned, total)} :
    \E centers \in {bin_centers(edges)} :
    \E observed \in BOOLEAN :
    \E l \in {[bin_edges |-> edges,
               bin_indices |-> indices,
               binned_intensity |-> binned,
               total_intensity |-> total,
               relative_intensity |-> relative,
               bin_centers |-> centers,
               intensity_sum |->
                   intensity_sum(RT_range(retention_time), intensity, observed)]} :
        /\ loc' = l
        /\ fig' = Append(fig, Scatter(fid, l))
        /\ pie_charts' = Append(pie_charts, Pie(fid, l))

\* lines 96-102 on a peak list without the column: the KeyError is caught
\* nowhere, so the run ends here and its locals are gone
Uncaught(name) ==
    /\ exception' = name
    /\ pc' = "idle"
    /\ todo' = {}
    /\ loc' = NoLocals
    /\ fig' = <<>>
    /\ pie_charts' = <<>>
    /\ UNCHANGED warnings

\* variant: response.raise_for_status() instead of the warning
ReportFailure_Raises(fid, status) ==
    /\ exception' = "HTTPError"
    /\ pc' = "idle"
    /\ todo' = {}
    /\ loc' = NoLocals
    /\ fig' = <<>>
    /\ pie_charts' = <<>>
    /\ UNCHANGED warnings

\* lines 149-150: a status other than 200 is reported and the loop goes on
ReportFailure(fid, status) ==
    /\ warnings' = Append(warnings, FetchWarning(fid, status))
    /\ todo' = todo \ {fid}
    /\ UNCHANGED <<loc, fig, pie_charts, exception, pc>>

\* lines 86-150: one iteration of the for loop.  A set is iterated in an
\* order the script does not control.  An exception other than
\* FileNotFoundError is caught nowhere: the run ends, the page keeps what
\* was already written to it and shows the exception.
FetchSample(served) ==
    /\ pc = "loop"
    /\ todo # {}
    /\ \E fid \in todo, resp \in served :
        /\ response' = resp
        /\ fetch_log' = Append(fetch_log, [fid |-> fid, response |-> resp])
        /\ IF resp.status = 200
           THEN IF KeyError(resp.body)
                THEN Uncaught("KeyError")
                ELSE /\ ProcessPeaks(fid, resp.body)
                     /\ todo' = todo \ {fid}
                     /\ UNCHANGED <<warnings, exception, pc>>
           ELSE ReportFailure(fid, resp.status)
    /\ UNCHANGED <<csv_found, selected_fids, detection_mode, rt_merge_width,
                   edited, line_chart, pies_shown, last_action>>

\* lines 152-175: after the loop, the overlay chart and the pie charts
RenderCharts ==
    /\ pc = "loop"
    /\ todo = {}
    /\ line_chart' = [shown |-> TRUE, traces |-> fig]
    /\ pies_shown' = pie_charts
    /\ pc' = "idle"
    /\ UNCHANGED <<csv_found, selected_fids, detection_mode, rt_merge_width,
                   edited, todo, response, loc, fig, pie_charts, warnings,
                   exception, fetch_log, last_action>>

Next ==
    \/ EditCheckbox
    \/ SaveSelection
    \/ SelectMode
    \/ SlideWidth
    \/ Confirm
    \/ FetchSample(Responses(ShellBodies))
    \/ RenderCharts

Spec == Init /\ [][Next]_vars

----------------------------------------------------------------------------
(* The engine alone: a batch over one selected sample, at the head of the  *)
(* loop, served any peak list of the bounded domain.                       *)

InitEngine ==
    /\ csv_found = TRUE
    /\ selected_fids = {sample_list_df[1]}
    /\ detection_mode = "pos"
    /\ rt_merge_width \in Widths
    /\ edited = [r \in Rows |-> r = 1]
    /\ pc = "loop"
    /\ todo = selected_fids
    /\ response = NoResponse
    /\ loc = NoLocals
    /\ fig = <<>>
    /\ pie_charts = <<>>
    /\ warnings = <<>>
    /\ line_chart = NoChart
    /\ pies_shown = <<>>
    /\ exception = "none"
    /\ fetch_log = <<>>
    /\ last_action = [kind |-> "confirm", marked |-> {},
                      prior_fids |-> selected_fids, prior_mode |-> "pos"]

NextEngine ==
    \/ FetchSample(Responses(EngineBodies))
    \/ RenderCharts

SpecEngine == InitEngine /\ [][NextEngine]_vars

----------------------------------------------------------------------------
(* Properties of the confirm batch *)

Count(seq, P(_)) == Cardinality({i \in DOMAIN seq : P(seq[i])})

TracesOf(f, traces) == Count(traces, LAMBDA t : t.name = f)
PiesOf(f, pies) == Count(pies, LAMBDA c : c.title = f)
FetchWarningsOf(f) == Count(warnings, LAMBDA w : w.kind = "fetch_failed" /\ w.fid = f)

Non2xx(resp) == resp.status \notin 200..299
Parsed(resp) == resp.status = 200 /\ ~KeyError(resp.body)
Malformed(resp) == resp.status = 200 /\ KeyError(resp.body)

FetchedFids == {fetch_log[i].fid : i \in DOMAIN fetch_log}
BatchDone == last_action.kind = "confirm" /\ pc = "idle" /\ line_chart.shown

\* C1: in a confirm batch a non-2xx response never ends the run; the sample
\* it belongs to gets no line and no pie and exactly one warning naming its
\* id with the status; a sample whose 200 response parses gets exactly one
\* line and one pie and no warning; the loop visits every selected sample
\* once, and the page shows exactly the collected lines and pies.
C1_PartialFailure ==
    /\ exception # "none" => ~Non2xx(fetch_log[Len(fetch_log)].response)
    /\ \A i \in DOMAIN fetch_log :
        LET e == fetch_log[i] IN
        /\ Non2xx(e.response) =>
            /\ TracesOf(e.fid, fig) = 0 /\ TracesOf(e.fid, line_chart.traces) = 0
            /\ PiesOf(e.fid, pie_charts) = 0 /\ PiesOf(e.fid, pies_shown) = 0
            /\ FetchWarningsOf(e.fid) = 1
            /\ FetchWarning(e.fid, e.response.status) \in Range(warnings)
        /\ (Parsed(e.response) /\ exception = "none") =>
            /\ TracesOf(e.fid, fig) = 1
            /\ PiesOf(e.fid, pie_charts) = 1
            /\ FetchWarningsOf(e.fid) = 0
    /\ pc = "loop" =>
        /\ todo \cup FetchedFids = selected_fids
        /\ todo \cap FetchedFids = {}
        /\ Cardinality(FetchedFids) = Len(fetch_log)
    /\ BatchDone =>
        /\ FetchedFids = selected_fids
        /\ Len(fetch_log) = Cardinality(selected_fids)
        /\ line_chart.traces = fig
        /\ pies_shown = pie_charts
        /\ Len(fig) = Count(fetch_log, LAMBDA e : Parsed(e.response))
        /\ Len(pie_charts) = Len(fig)

\* a finished batch of two samples, one answered 500 and one parsed: one
\* line, one pie, one warning
C1_Witness ==
    /\ BatchDone
    /\ Len(fetch_log) = 2
    /\ fetch_log[1].response.status = 500
    /\ Parsed(fetch_log[2].response)
    /\ Len(line_chart.traces) = 1
    /\ Len(pies_shown) = 1
    /\ Len(warnings) = 1

\* C2: a 200 response whose payload lacks rt or intensity is a failure of
\* that sample only: no exception ends the run and the sample is named in
\* a warning.
C2_MalformedIsPerSampleWarning ==
    \A i \in DOMAIN fetch_log :
        Malformed(fetch_log[i].response) =>
            /\ exception = "none"
            /\ FetchWarningsOf(fetch_log[i].fid) = 1

\* C3: after a save the stored selection is exactly the ids of the rows
\* marked in the submitted table, whatever was stored before.
C3_SaveReplaces ==
    last_action.kind = "save" =>
        selected_fids = {sample_list_df[r] : r \in last_action.marked}

\* a save that removed an id stored by an earlier save
C3_Witness ==
    /\ last_action.kind = "save"
    /\ last_action.prior_fids \ selected_fids # {}
    /\ selected_fids # {}

\* C7: confirm on an empty selection shows the warning and runs nothing: no
\* request, no chart, no pie, and selection and mode stay as they were.
C7_EmptySelection ==
    (last_action.kind = "confirm" /\ last_action.prior_fids = {}) =>
        /\ warnings = <<EmptySelectionWarning>>
        /\ pc = "idle"
        /\ fetch_log = <<>>
        /\ ~line_chart.shown
        /\ pies_shown = <<>>
        /\ selected_fids = {}
        /\ detection_mode = last_action.prior_mode

\* confirm pressed on an empty selection, with rows ticked but not saved
C7_Witness ==
    /\ last_action.kind = "confirm"
    /\ last_action.prior_fids = {}
    /\ \E r \in Rows : edited[r]
    /\ detection_mode = "neg"

\* C10: the stored selection changes only in a save step, the detection
\* mode only in a step of the mode selector, and no step of the pipeline
\* changes either.
C10_Frame ==
    [][ /\ (selected_fids' # selected_fids => SaveSelection)
        /\ (detection_mode' # detection_mode => SelectMode)
        /\ (pc = "loop" => UNCHANGED <<selected_fids, detection_mode>>) ]_vars

\* a batch with a failed and a processed sample has run while unsaved ticks
\* differ from the stored selection, which is as confirm found it
C10_Witness ==
    /\ BatchDone
    /\ warnings # <<>>
    /\ fig # <<>>
    /\ {sample_list_df[r] : r \in {q \in Rows : edited[q]}} # selected_fids
    /\ selected_fids = last_action.prior_fids
    /\ detection_mode = "neg"

----------------------------------------------------------------------------
(* Properties of the engine, on the sample just processed *)

Processed == Parsed(response) /\ exception = "none"
Points == response.body.points
RTs == {Points[k].rt : k \in DOMAIN Points}
FetchedTotal == SeqSum([k \in DOMAIN Points |-> Points[k].intensity])

\* C4: the histogram has ceil((max - min) / w) bins and every point is
\* counted in exactly one of them.
C4_EveryPointBinned ==
    Processed =>
        /\ Len(loc.binned_intensity) =
               CeilDiv(SetMax(RTs) - SetMin(RTs), rt_merge_width)
        /\ \A k \in DOMAIN Points :
               loc.bin_indices[k] \in 1..Len(loc.binned_intensity)

AllFinite(ys) == \A i \in DOMAIN ys : ys[i].kind = "fin"

\* the sum of fractions over one denominator is 100
SumsTo100(ys) ==
    /\ ys # <<>>
    /\ AllFinite(ys)
    /\ \A i \in DOMAIN ys : ys[i].den = ys[1].den
    /\ SeqSum([i \in DOMAIN ys |-> ys[i].num]) = 100 * ys[1].den

\* C5: when the fetched intensities sum to more than 0, the relative
\* intensities of the sample's series sum to 100.
C5_RelativeSumsTo100 ==
    (Processed /\ FetchedTotal > 0) => SumsTo100(fig[Len(fig)].y)

InBucket(x, k) ==
    /\ x >= (k - 1) * 20 * TicksPerMinute
    /\ (k < 5 => x < k * 20 * TicksPerMinute)

BucketTotal(k) ==
    SeqSum([j \in DOMAIN Points |->
                IF InBucket(Points[j].rt, k) THEN Points[j].intensity ELSE 0])

\* C6: the pie of a sample has the 5 labels in the fixed order and 5
\* values, the k-th being the sum of intensity over the points with
\* retention time in [20(k-1), 20k) min, the last range unbounded; a range
\* without points has the value 0.
C6_FiveBuckets ==
    Processed =>
        LET pie == pie_charts[Len(pie_charts)] IN
        /\ pie.labels = <<"0-20 min", "20-40 min", "40-60 min", "60-80 min", "80+ min">>
        /\ Len(pie.values) = 5
        /\ \A k \in 1..5 : pie.values[k] = BucketTotal(k)

\* points on the 20 min and on the 80 min boundary and nothing between
C6_Witness ==
    /\ Processed
    /\ Len(Points) = 2
    /\ Points[1].rt = 20 * TicksPerMinute /\ Points[1].intensity > 0
    /\ Points[2].rt = 80 * TicksPerMinute /\ Points[2].intensity > 0
    /\ pie_charts[1].values = <<0, Points[1].intensity, 0, 0, Points[2].intensity>>
    /\ pies_shown = pie_charts

\* C8: a sample whose retention times are a single value still gets at
\* least 2 bin edges, that is at least 1 bin.
C8_SinglePointHasABin ==
    (Processed /\ SetMin(RTs) = SetMax(RTs)) => Len(loc.bin_edges) >= 2

\* C9: when the bin sums total zero, no undefined value is placed into a
\* line series.
C9_NoUndefinedInSeries ==
    (Processed /\ loc.total_intensity = 0) =>
        \A t \in Range(fig) \cup Range(line_chart.traces) : AllFinite(t.y)

====
